---------------------------- MODULE Spec2Model ----------------------------
(***************************************************************************)
(* A model of numerox's utility/lookup layer (numerox/util.py) and of its  *)
(* model adapter layer (numerox/model.py).                                 *)
(*                                                                         *)
(* Spec      : the utility layer; one action per call of a util function,  *)
(*             and the generator returned by tournament_iter stepped by    *)
(*             next().                                                     *)
(* SpecModel : the adapter layer; construction of adapters and calls of    *)
(*             fit_predict, hash and __repr__ on them.                     *)
(*                                                                         *)
(* Python values are modelled as follows.  A list is a sequence (Python    *)
(* index i is TLA+ index i+1); a str is a string; an int is an integer; a  *)
(* float is a decimal fraction [n, d] (n/d, d a power of ten); the result  *)
(* of a call is an outcome: a returned value or a raised exception.        *)
(***************************************************************************)
EXTENDS Integers, Sequences, FiniteSets, TLC

VARIABLES
    TOURNAMENT_NAMES,   \* util.py module global (a mutable Python list)
    HAS_XGBOOST,        \* model.py module global, set at import
    ret,                \* the last call: its operation, arguments, outcome
    gens,               \* the generators made by tournament_iter()
    objs,               \* the heap of adapter instances
    estimators          \* the heap of underlying estimators, in creation order

vars == <<TOURNAMENT_NAMES, HAS_XGBOOST, ret, gens, objs, estimators>>

-----------------------------------------------------------------------------
(* Bounds of the model *)

\* integers passed to the util functions range over -MaxInt..MaxInt
MaxInt == 8
\* number of generator slots a caller holds at once
MaxGens == 2
\* number of underlying estimators created in one run
MaxEstimators == 2
\* datasets have 0..MaxRows rows
MaxRows == 2
\* bits of the interpreter's hash modulus 2^HashBits - 1 (61 in CPython 3 on a
\* 64-bit build; scaled down here)
HashBits == 3

-----------------------------------------------------------------------------
(* Outcomes of a call *)

Return(v) == [exc |-> "none", msg |-> "", value |-> <<v>>]

Raise(e, m) == [exc |-> e, msg |-> m, value |-> <<>>]

Returned(o) == o.exc = "none"

-----------------------------------------------------------------------------
(* Python list primitives used by util.py *)

\* l[i]: negative indices count from the end, out of range is an IndexError
ListGetItem(l, i) ==
    IF 0 <= i /\ i < Len(l) THEN Return(l[i + 1])
    ELSE IF -Len(l) <= i /\ i < 0 THEN Return(l[Len(l) + i + 1])
    ELSE Raise("IndexError", "list index out of range")

\* x in l
ListContains(l, x) == \E k \in 1..Len(l) : l[k] = x

\* l.index(x): the first position holding x, ValueError when there is none
ListIndex(l, x) ==
    IF ListContains(l, x)
    THEN Return((CHOOSE k \in 1..Len(l) :
                    l[k] = x /\ \A j \in 1..(k - 1) : l[j] # x) - 1)
    ELSE Raise("ValueError", "x is not in list")

\* range(a, b) as the sequence a, a+1, ..., b-1
Range(a, b) == [k \in 1..(IF b > a THEN b - a ELSE 0) |-> a + k - 1]

-----------------------------------------------------------------------------
(* util.py: the tournament registry and its conversions *)

NAMES == <<"bernie", "elizabeth", "jordan", "ken", "charles">>

\* In the messages below the source's backquotes are written as ' (a backquote
\* cannot be written in a TLA+ string).

\* tournament_int2str without its lower bound check
tournament_int2str_no_lower_check(tournament_int) ==
    IF tournament_int > 5
    THEN Raise("ValueError", "'tournament_int' must be less than 6")
    ELSE ListGetItem(TOURNAMENT_NAMES, tournament_int - 1)

\* tournament_int2str with the rejected value put into the message
tournament_int2str_value_in_message(tournament_int) ==
    IF tournament_int < 1 \/ tournament_int > 5
    THEN Raise("ValueError",
               "'tournament_int' is out of range: " \o ToString(tournament_int))
    ELSE ListGetItem(TOURNAMENT_NAMES, tournament_int - 1)

tournament_int2str(tournament_int) ==
    IF tournament_int < 1
    THEN Raise("ValueError", "'tournament_int' must be greater than 0")
    ELSE IF tournament_int > 5
    THEN Raise("ValueError", "'tournament_int' must be less than 6")
    ELSE ListGetItem(TOURNAMENT_NAMES, tournament_int - 1)

\* tournament_str2int returning the 0-based list index
tournament_str2int_zero_based(tournament_str) ==
    IF ~ListContains(TOURNAMENT_NAMES, tournament_str)
    THEN Raise("ValueError", "'tournament_str' name not recognized")
    ELSE ListIndex(TOURNAMENT_NAMES, tournament_str)

tournament_str2int(tournament_str) ==
    IF ~ListContains(TOURNAMENT_NAMES, tournament_str)
    THEN Raise("ValueError", "'tournament_str' name not recognized")
    ELSE LET k == ListIndex(TOURNAMENT_NAMES, tournament_str)
         IN  IF Returned(k) THEN Return(k.value[1] + 1) ELSE k

-----------------------------------------------------------------------------
(* util.py: tournament_iter, a generator function *)

\* A generator object: the values of range(1, 6) it has not yet taken, whether
\* its body has finished, and the items it has yielded so far.
NoGen == [state |-> "none", rest |-> <<>>, out |-> <<>>]

\* tournament_iter looping over range(1, 5)
tournament_iter_short == [state |-> "suspended", rest |-> Range(1, 5), out |-> <<>>]

\* tournament_iter(): a generator suspended at the start of its body
tournament_iter == [state |-> "suspended", rest |-> Range(1, 6), out |-> <<>>]

\* next(g): run the body to its next yield.  The result is the generator after
\* the step and the outcome the caller sees.
\*   for t in range(1, 6): yield t, tournament_int2str(t)
GenNext(g) ==
    IF g.state = "finished" \/ g.rest = <<>>
    THEN [gen |-> [g EXCEPT !.state = "finished"],
          out |-> Raise("StopIteration", "")]
    ELSE LET t == Head(g.rest)
             s == tournament_int2str(t)
         IN  IF Returned(s)
             THEN [gen |-> [g EXCEPT !.rest = Tail(g.rest),
                                     !.out = Append(g.out, <<t, s.value[1]>>)],
                   out |-> Return(<<t, s.value[1]>>)]
             ELSE [gen |-> [g EXCEPT !.state = "finished"], out |-> s]

-----------------------------------------------------------------------------
(* util.py: isint *)

\* Python and numpy scalar types a caller may pass, each with a sample value
IsintInputs ==
    { [type |-> "int", text |-> "1"],        [type |-> "int", text |-> "-3"],
      [type |-> "int", text |-> "0"],
      [type |-> "float", text |-> "1.1"],    [type |-> "float", text |-> "1.0"],
      [type |-> "bool", text |-> "True"],    [type |-> "bool", text |-> "False"],
      [type |-> "complex", text |-> "1j"],   [type |-> "str", text |-> "a"],
      [type |-> "str", text |-> "1"],
      [type |-> "np.int8", text |-> "1"],    [type |-> "np.int16", text |-> "1"],
      [type |-> "np.int32", text |-> "1"],   [type |-> "np.int64", text |-> "1"],
      [type |-> "np.uint8", text |-> "1"],   [type |-> "np.uint32", text |-> "1"],
      [type |-> "np.uint64", text |-> "1"],
      [type |-> "np.float32", text |-> "1.0"],
      [type |-> "np.float64", text |-> "1.0"],
      [type |-> "np.bool_", text |-> "True"] }

\* type(x)
TypeOf(x) == x.type

\* The base class of each numpy scalar type (np.generic is the root)
NumpyBase(t) ==
    CASE t \in {"np.int8", "np.int16", "np.int32", "np.int64", "np.int_"}
                                            -> "np.signedinteger"
      [] t \in {"np.uint8", "np.uint32", "np.uint64"}
                                            -> "np.unsignedinteger"
      [] t \in {"np.signedinteger", "np.unsignedinteger"} -> "np.integer"
      [] t \in {"np.float32", "np.float64"}  -> "np.floating"
      [] t = "np.complex128"                 -> "np.complexfloating"
      [] t \in {"np.floating", "np.complexfloating"} -> "np.inexact"
      [] t \in {"np.integer", "np.inexact"}  -> "np.number"
      [] t = "np.str_"                       -> "np.character"
      [] t = "np.character"                  -> "np.flexible"
      [] OTHER                               -> "np.generic"

\* np.dtype(t).type for a Python builtin type t; a numpy scalar type is itself
DtypeType(t) ==
    CASE t = "int"     -> "np.int_"
      [] t = "bool"    -> "np.bool_"
      [] t = "float"   -> "np.float64"
      [] t = "complex" -> "np.complex128"
      [] t = "str"     -> "np.str_"
      [] OTHER         -> t

RECURSIVE IsSubclass(_, _)
IsSubclass(t, base) ==
    IF t = base THEN TRUE
    ELSE IF t = "np.generic" THEN FALSE
    ELSE IsSubclass(NumpyBase(t), base)

\* np.issubdtype(arg1, arg2)
issubdtype(arg1, arg2) == IsSubclass(DtypeType(arg1), arg2)

\* isint written as isinstance(x, int)
isint_isinstance(x) == TypeOf(x) \in {"int", "bool"}

isint(x) == issubdtype(TypeOf(x), "np.signedinteger")

-----------------------------------------------------------------------------
(* Python scalars held in a parameter mapping: int and float *)

PyInt(n) == [k |-> "int", n |-> n, d |-> 1]

\* the float n/d, d a power of ten, in lowest decimal terms
RECURSIVE PyFloat(_, _)
PyFloat(n, d) ==
    IF d > 1 /\ n % 10 = 0 THEN PyFloat(n \div 10, d \div 10)
    ELSE [k |-> "float", n |-> n, d |-> d]

FloatMul(a, b) == PyFloat(a.n * b.n, a.d * b.d)

\* digits zero-filled on the left to the given width
RECURSIVE ZeroFill(_, _)
ZeroFill(digits, width) ==
    IF Len(digits) < width THEN ZeroFill("0" \o digits, width) ELSE digits

\* str(value) of a scalar: decimal digits of an int; the shortest repr of a
\* float (always with a fractional part; values here lie in [1e-4, 1e16))
Str(v) ==
    IF v.k = "int" THEN ToString(v.n)
    ELSE IF v.d = 1 THEN ToString(v.n) \o ".0"
    ELSE ToString(v.n \div v.d) \o "." \o ZeroFill(ToString(v.n % v.d), Len(ToString(v.d)) - 1)

-----------------------------------------------------------------------------
(* Python dict: the (key, value) pairs in insertion order *)

DictLen(p) == Len(p)

DictItems(p) == p

DictGetItem(p, key) == p[CHOOSE i \in 1..Len(p) : p[i][1] = key][2]

-----------------------------------------------------------------------------
(* json.dumps(p, sort_keys=True) *)

\* the characters of parameter names, in code point order
Alphabet == "0123456789_abcdefghijklmnopqrstuvwxyz"

\* ord(c), up to a constant: the position of c in Alphabet
CharOrd ==
    [c \in {SubSeq(Alphabet, i, i) : i \in 1..Len(Alphabet)} |->
        CHOOSE i \in 1..Len(Alphabet) : SubSeq(Alphabet, i, i) = c]

\* a < b on str: lexicographic by code point
RECURSIVE StrLess(_, _)
StrLess(a, b) ==
    IF b = "" THEN FALSE
    ELSE IF a = "" THEN TRUE
    ELSE IF SubSeq(a, 1, 1) = SubSeq(b, 1, 1)
         THEN StrLess(SubSeq(a, 2, Len(a)), SubSeq(b, 2, Len(b)))
         ELSE CharOrd[SubSeq(a, 1, 1)] < CharOrd[SubSeq(b, 1, 1)]

\* insert item into the key-sorted sequence q
RECURSIVE SortedInsert(_, _)
SortedInsert(q, item) ==
    IF q = <<>> THEN <<item>>
    ELSE IF StrLess(item[1], Head(q)[1]) THEN <<item>> \o q
    ELSE <<Head(q)>> \o SortedInsert(Tail(q), item)

\* the items of p sorted by key
RECURSIVE SortedItems(_)
SortedItems(p) ==
    IF p = <<>> THEN <<>>
    ELSE SortedInsert(SortedItems(Tail(p)), Head(p))

\* "k1": v1, "k2": v2, ...
RECURSIVE JsonMembers(_)
JsonMembers(items) ==
    IF items = <<>> THEN ""
    ELSE "\"" \o Head(items)[1] \o "\": " \o Str(Head(items)[2])
         \o (IF Tail(items) = <<>> THEN "" ELSE ", " \o JsonMembers(Tail(items)))

json_dumps_sort_keys(p) == "{" \o JsonMembers(SortedItems(p)) \o "}"

-----------------------------------------------------------------------------
(* The dataset contract (numerox.data.Data, an external collaborator): a   *)
(* feature matrix x, a label vector y, row identifiers ids, a content hash *)
(* and a length, all over the same rows.                                   *)

RowIds == <<"n7", "n3", "n5", "n1">>

HashModulus == 2^HashBits - 1

\* a dataset of n rows; datasets of different content have different hashes
Data(n) ==
    [ids |-> [i \in 1..n |-> RowIds[((i - 1) % Len(RowIds)) + 1]],
     x   |-> [i \in 1..n |-> i % 2],
     y   |-> [i \in 1..n |-> (i + 1) % 2],
     h   |-> 1 + (n % 2) + (n \div 2) * HashModulus]

Datasets == { Data(n) : n \in 0..MaxRows }

\* len(data)
Data_len(data) == Len(data.x)

\* data.hash()
Data_hash(data) == data.h

-----------------------------------------------------------------------------
(* The underlying estimator contract (sklearn / xgboost, external): fit    *)
(* trains on features and labels; predict_proba returns one row of class   *)
(* scores per input row.  What training yields is not known to this layer: *)
(* it is a choice of a scoring function from feature rows to score rows.   *)

FeatureVals == {0, 1}

\* the score rows [P(class 0), P(class 1)] a trained estimator may give
LowRow == <<PyFloat(7, 10), PyFloat(3, 10)>>

HighRow == <<PyFloat(4, 10), PyFloat(6, 10)>>

Fits == { [v \in FeatureVals |-> IF v = 0 THEN LowRow ELSE HighRow],
          [v \in FeatureVals |-> IF v = 0 THEN HighRow ELSE LowRow] }

\* est.predict_proba(x), est trained to the scoring function f
predict_proba(f, x) == [i \in 1..Len(x) |-> f[x[i]]]

\* m[:, j]
Column(m, j) == [i \in 1..Len(m) |-> m[i][j + 1]]

\* np.ones(n)
np_ones(n) == [i \in 1..n |-> PyFloat(10, 10)]

\* a * arr for a scalar a
ScalarTimes(a, arr) == [i \in 1..Len(arr) |-> FloatMul(a, arr[i])]

-----------------------------------------------------------------------------
(* model.py: the adapter classes' constructors (the value of self.p) *)

logistic_init(inverse_l2) == << <<"inverse_l2", inverse_l2>> >>

extratrees_init(ntrees, depth, nfeatures, seed) ==
    << <<"ntrees", ntrees>>, <<"depth", depth>>,
       <<"nfeatures", nfeatures>>, <<"seed", seed>> >>

randomforest_init(ntrees, depth, max_features, seed) ==
    << <<"ntrees", ntrees>>, <<"depth", depth>>,
       <<"max_features", max_features>>, <<"seed", seed>> >>

xgboost_init(learning_rate, subsample, max_depth, n_estimators, seed) ==
    << <<"learning_rate", learning_rate>>, <<"subsample", subsample>>,
       <<"max_depth", max_depth>>, <<"n_estimators", n_estimators>>,
       <<"seed", seed>> >>

logisticPCA_init(nfeatures, inverse_l2) ==
    << <<"inverse_l2", inverse_l2>>, <<"nfeatures", nfeatures>> >>

fifty_init == <<>>

\* the default arguments of the constructors
logistic_defaults == <<PyFloat(1, 10000)>>
extratrees_defaults == <<PyInt(100), PyInt(3), PyInt(7), PyInt(0)>>
randomforest_defaults == <<PyInt(100), PyInt(3), PyInt(2), PyInt(0)>>
xgboost_defaults == <<PyFloat(1, 10), PyFloat(4, 10), PyInt(5), PyInt(5), PyInt(0)>>
logisticPCA_defaults == <<PyInt(10), PyFloat(1, 10000)>>

\* an adapter instance: its class, whether it has the attribute p, and p
NoObj == [cls |-> "", hasp |-> FALSE, p |-> <<>>]

Obj(cls, p) == [cls |-> cls, hasp |-> TRUE, p |-> p]

\* an instance of the base class Model, which sets no p
ModelObj == [cls |-> "Model", hasp |-> FALSE, p |-> <<>>]

-----------------------------------------------------------------------------
(* The builtin hash().  hash(int) reduces the int modulo the hash modulus  *)
(* (keeping its sign; -1 becomes -2).  hash(tuple) is a function of the    *)
(* hashes of the items; that function and hash(str) are not interpreted:   *)
(* the value is represented by the sequence of item hashes, so that equal  *)
(* values here are equal hashes in Python.                                 *)

IntItem(n) == [k |-> "int", n |-> n, s |-> ""]

StrItem(s) == [k |-> "str", n |-> 0, s |-> s]

IntHash(n) ==
    LET m == IF n < 0 THEN -((-n) % HashModulus) ELSE n % HashModulus
    IN  IF m = -1 THEN -2 ELSE m

ItemHash(item) == IF item.k = "int" THEN IntItem(IntHash(item.n)) ELSE item

PyHash(h) == [i \in 1..Len(h) |-> ItemHash(h[i])]

-----------------------------------------------------------------------------
(* model.py: class Model *)

\* the tuple h that Model.hash builds
HashTuple(self, dfit, dpre) ==
    LET h1 == <<IntItem(Data_hash(dfit))>>
        h2 == Append(h1, IntItem(Data_hash(dpre)))
        h3 == Append(h2, StrItem(objs[self].cls))
    IN  IF objs[self].hasp
        THEN Append(h3, StrItem(json_dumps_sort_keys(objs[self].p)))
        ELSE h3

\* a hash that also takes in the identity of the instance
Model_hash_by_identity(self, dfit, dpre) ==
    PyHash(Append(HashTuple(self, dfit, dpre), IntItem(self)))

Model_hash(self, dfit, dpre) == PyHash(HashTuple(self, dfit, dpre))

\* the loop of __repr__ over self.p.items()
RECURSIVE ReprItems(_, _)
ReprItems(msg, items) ==
    IF items = <<>> THEN msg
    ELSE ReprItems(msg \o Head(items)[1] \o "=" \o Str(Head(items)[2]) \o ", ",
                   Tail(items))

\* __repr__ looping over sorted(self.p.items())
Model_repr_sorted(self) ==
    LET model == objs[self].cls
    IN  IF objs[self].hasp
        THEN IF DictLen(objs[self].p) = 0
             THEN model \o "()"
             ELSE LET msg == ReprItems(model \o "(", SortedItems(objs[self].p))
                  IN  SubSeq(msg, 1, Len(msg) - 2) \o ")"
        ELSE model \o "()"

Model_repr(self) ==
    LET model == objs[self].cls
    IN  IF objs[self].hasp
        THEN IF DictLen(objs[self].p) = 0
             THEN model \o "()"
             ELSE LET msg == ReprItems(model \o "(", DictItems(objs[self].p))
                  IN  SubSeq(msg, 1, Len(msg) - 2) \o ")"
        ELSE model \o "()"

-----------------------------------------------------------------------------
(* model.py: the estimator each adapter's fit_predict constructs *)

logistic_estimator(p) ==
    [kind |-> "LogisticRegression",
     kwargs |-> << <<"C", DictGetItem(p, "inverse_l2")>> >>]

extratrees_estimator(p) ==
    [kind |-> "ExtraTreesClassifier",
     kwargs |-> << <<"criterion", "gini">>,
                   <<"max_features", DictGetItem(p, "nfeatures")>>,
                   <<"max_depth", DictGetItem(p, "depth")>>,
                   <<"n_estimators", DictGetItem(p, "ntrees")>>,
                   <<"random_state", DictGetItem(p, "seed")>>,
                   <<"n_jobs", PyInt(-1)>> >>]

randomforest_estimator(p) ==
    [kind |-> "RandomForestClassifier",
     kwargs |-> << <<"criterion", "gini">>,
                   <<"max_features", DictGetItem(p, "max_features")>>,
                   <<"max_depth", DictGetItem(p, "depth")>>,
                   <<"n_estimators", DictGetItem(p, "ntrees")>>,
                   <<"random_state", DictGetItem(p, "seed")>>,
                   <<"n_jobs", PyInt(-1)>> >>]

xgboost_estimator(p) ==
    [kind |-> "XGBClassifier",
     kwargs |-> << <<"learning_rate", DictGetItem(p, "learning_rate")>>,
                   <<"subsample", DictGetItem(p, "subsample")>>,
                   <<"max_depth", DictGetItem(p, "max_depth")>>,
                   <<"n_estimators", DictGetItem(p, "n_estimators")>>,
                   <<"seed", DictGetItem(p, "seed")>>,
                   <<"nthread", PyInt(-1)>> >>]

logisticPCA_estimator(p) ==
    [kind |-> "Pipeline",
     kwargs |-> << <<"pca.n_components", DictGetItem(p, "nfeatures")>>,
                   <<"lr.C", DictGetItem(p, "inverse_l2")>> >>]

-----------------------------------------------------------------------------
(* State *)

GenIds == 1..MaxGens

\* the caller's two references to adapter instances
ModelIds == {1, 2}

\* no call made yet
NoCall == [op |-> "none", self |-> 0, args |-> <<>>, aux |-> <<>>,
           out |-> Raise("no call", "")]

Call(op, self, args, aux, out) ==
    [op |-> op, self |-> self, args |-> args, aux |-> aux, out |-> out]

Init ==
    /\ TOURNAMENT_NAMES = NAMES
    /\ HAS_XGBOOST \in BOOLEAN
    /\ ret = NoCall
    /\ gens = [g \in GenIds |-> NoGen]
    /\ objs = [i \in ModelIds |-> NoObj]
    /\ estimators = 0

-----------------------------------------------------------------------------
(* Calls into util.py *)

IntInputs == -MaxInt..MaxInt

StrInputs ==
    { NAMES[k] : k \in 1..Len(NAMES) }
        \cup {"", "foo", "Bernie", "bernie ", "name", "1", "6"}

UtilFrame == UNCHANGED <<TOURNAMENT_NAMES, HAS_XGBOOST, objs, estimators>>

Call_tournament_int2str(t) ==
    /\ ret' = Call("tournament_int2str", 0, <<t>>, <<>>, tournament_int2str(t))
    /\ UNCHANGED gens
    /\ UtilFrame

Call_tournament_str2int(n) ==
    /\ ret' = Call("tournament_str2int", 0, <<n>>, <<>>, tournament_str2int(n))
    /\ UNCHANGED gens
    /\ UtilFrame

Call_isint(x) ==
    /\ ret' = Call("isint", 0, <<x>>, <<>>, Return(isint(x)))
    /\ UNCHANGED gens
    /\ UtilFrame

\* g = tournament_iter(): slot g is bound to a fresh generator
Call_tournament_iter(g) ==
    /\ gens' = [gens EXCEPT ![g] = tournament_iter]
    /\ ret' = Call("tournament_iter", g, <<>>, <<>>, Return(g))
    /\ UtilFrame

\* next(g)
Call_next(g) ==
    /\ gens[g].state # "none"
    /\ LET r == GenNext(gens[g])
       IN  /\ gens' = [gens EXCEPT ![g] = r.gen]
           /\ ret' = Call("next", g, <<>>, <<>>, r.out)
    /\ UtilFrame

Next ==
    \/ \E t \in IntInputs : Call_tournament_int2str(t)
    \/ \E n \in StrInputs : Call_tournament_str2int(n)
    \/ \E x \in IsintInputs : Call_isint(x)
    \/ \E g \in GenIds : Call_tournament_iter(g)
    \/ \E g \in GenIds : Call_next(g)

Spec == Init /\ [][Next]_vars

-----------------------------------------------------------------------------
(* Calls into model.py: construction *)

\* the argument lists a caller passes: the defaults, and for logistic and
\* extratrees also a first argument of its own
logistic_args == {logistic_defaults, <<PyInt(1)>>}

extratrees_args == {extratrees_defaults, [extratrees_defaults EXCEPT ![1] = PyInt(10)]}

randomforest_args == {randomforest_defaults}

xgboost_args == {xgboost_defaults}

logisticPCA_args == {logisticPCA_defaults}

ModelFrame == UNCHANGED <<TOURNAMENT_NAMES, HAS_XGBOOST, gens>>

\* objs[i] = cls(...): slot i, still empty, is bound to the new instance
Bind(i, op, obj) ==
    /\ objs[i] = NoObj
    /\ objs' = [objs EXCEPT ![i] = obj]
    /\ ret' = Call(op, i, <<obj.p>>, <<>>, Return(i))
    /\ UNCHANGED estimators
    /\ ModelFrame

New_Model(i) == Bind(i, "Model", ModelObj)

New_logistic(i, a) == Bind(i, "logistic", Obj("logistic", logistic_init(a[1])))

New_extratrees(i, a) ==
    Bind(i, "extratrees", Obj("extratrees", extratrees_init(a[1], a[2], a[3], a[4])))

New_randomforest(i, a) ==
    Bind(i, "randomforest",
         Obj("randomforest", randomforest_init(a[1], a[2], a[3], a[4])))

\* xgboost.__init__ raises after setting self.p when the library is missing;
\* the caller then gets no instance
New_xgboost(i, a) ==
    IF HAS_XGBOOST
    THEN Bind(i, "xgboost",
              Obj("xgboost", xgboost_init(a[1], a[2], a[3], a[4], a[5])))
    ELSE /\ objs[i] = NoObj
         /\ ret' = Call("xgboost", i, <<a>>, <<>>,
                        Raise("ImportError",
                              "You must install xgboost to use this model"))
         /\ UNCHANGED <<objs, estimators>>
         /\ ModelFrame

New_logisticPCA(i, a) ==
    Bind(i, "logisticPCA", Obj("logisticPCA", logisticPCA_init(a[1], a[2])))

New_fifty(i) == Bind(i, "fifty", Obj("fifty", fifty_init))

-----------------------------------------------------------------------------
(* Calls into model.py: fit_predict, hash, __repr__ *)

\* what est.fit(dfit.x, dfit.y) does: it trains est to one of the scoring
\* functions, or raises
FitFails == <<>>

FitOutcomes == Fits \cup {FitFails}

\* fit_predict predicting on the rows of dfit
EstimatorFitPredict_predict_on_fit(self, est, dfit, dpre, fit) ==
    /\ estimators < MaxEstimators
    /\ estimators' = estimators + 1
    /\ ret' = Call("fit_predict", self, <<dfit, dpre>>,
                   [est |-> [id |-> estimators + 1, kind |-> est.kind,
                             kwargs |-> est.kwargs],
                    fit |-> fit],
                   IF fit = FitFails
                   THEN Raise("EstimatorError", "raised by the estimator")
                   ELSE Return(<<dpre.ids,
                                 Column(predict_proba(fit, dfit.x), 1)>>))
    /\ UNCHANGED objs
    /\ ModelFrame

\* fit_predict keeping the first estimator it made and using it again
EstimatorFitPredict_cached(self, est, dfit, dpre, fit) ==
    /\ estimators < MaxEstimators
    /\ estimators' = IF estimators = 0 THEN 1 ELSE estimators
    /\ ret' = Call("fit_predict", self, <<dfit, dpre>>,
                   [est |-> [id |-> IF estimators = 0 THEN 1 ELSE estimators,
                             kind |-> est.kind, kwargs |-> est.kwargs],
                    fit |-> fit],
                   IF fit = FitFails
                   THEN Raise("EstimatorError", "raised by the estimator")
                   ELSE Return(<<dpre.ids,
                                 Column(predict_proba(fit, dpre.x), 1)>>))
    /\ UNCHANGED objs
    /\ ModelFrame

\* The common body of the estimator-backed fit_predict methods:
\*     est = <estimator>(...); est.fit(dfit.x, dfit.y)
\*     yhat = est.predict_proba(dpre.x)[:, 1]
\*     return dpre.ids, yhat
\* A failure of the estimator propagates to the caller.
EstimatorFitPredict(self, est, dfit, dpre, fit) ==
    /\ estimators < MaxEstimators
    /\ estimators' = estimators + 1
    /\ ret' = Call("fit_predict", self, <<dfit, dpre>>,
                   [est |-> [id |-> estimators + 1, kind |-> est.kind,
                             kwargs |-> est.kwargs],
                    fit |-> fit],
                   IF fit = FitFails
                   THEN Raise("EstimatorError", "raised by the estimator")
                   ELSE Return(<<dpre.ids,
                                 Column(predict_proba(fit, dpre.x), 1)>>))
    /\ UNCHANGED objs
    /\ ModelFrame

logistic_fit_predict(self, dfit, dpre, fit) ==
    /\ objs[self].cls = "logistic"
    /\ EstimatorFitPredict(self, logistic_estimator(objs[self].p), dfit, dpre, fit)

extratrees_fit_predict(self, dfit, dpre, fit) ==
    /\ objs[self].cls = "extratrees"
    /\ EstimatorFitPredict(self, extratrees_estimator(objs[self].p), dfit, dpre, fit)

randomforest_fit_predict(self, dfit, dpre, fit) ==
    /\ objs[self].cls = "randomforest"
    /\ EstimatorFitPredict(self, randomforest_estimator(objs[self].p), dfit, dpre, fit)

xgboost_fit_predict(self, dfit, dpre, fit) ==
    /\ objs[self].cls = "xgboost"
    /\ EstimatorFitPredict(self, xgboost_estimator(objs[self].p), dfit, dpre, fit)

logisticPCA_fit_predict(self, dfit, dpre, fit) ==
    /\ objs[self].cls = "logisticPCA"
    /\ EstimatorFitPredict(self, logisticPCA_estimator(objs[self].p), dfit, dpre, fit)

\* fifty without the factor 0.5
fifty_predictions_ones(dpre) == np_ones(Data_len(dpre))

\* yhat = 0.5 * np.ones(len(dpre)); return dpre.ids, yhat
fifty_predictions(dpre) == ScalarTimes(PyFloat(5, 10), np_ones(Data_len(dpre)))

NoEst == [est |-> [id |-> 0, kind |-> "", kwargs |-> <<>>], fit |-> FitFails]

fifty_fit_predict(self, dfit, dpre) ==
    /\ objs[self].cls = "fifty"
    /\ ret' = Call("fit_predict", self, <<dfit, dpre>>, NoEst,
                   Return(<<dpre.ids, fifty_predictions(dpre)>>))
    /\ UNCHANGED <<objs, estimators>>
    /\ ModelFrame

Call_hash(self, dfit, dpre) ==
    /\ objs[self] # NoObj
    /\ ret' = Call("hash", self, <<dfit, dpre>>, <<>>,
                   Return(Model_hash(self, dfit, dpre)))
    /\ UNCHANGED <<objs, estimators>>
    /\ ModelFrame

Call_repr(self) ==
    /\ objs[self] # NoObj
    /\ ret' = Call("repr", self, <<>>, <<>>, Return(Model_repr(self)))
    /\ UNCHANGED <<objs, estimators>>
    /\ ModelFrame

NextModel ==
    \/ \E i \in ModelIds : New_Model(i)
    \/ \E i \in ModelIds, a \in logistic_args : New_logistic(i, a)
    \/ \E i \in ModelIds, a \in extratrees_args : New_extratrees(i, a)
    \/ \E i \in ModelIds, a \in randomforest_args :
          New_randomforest(i, a)
    \/ \E i \in ModelIds, a \in xgboost_args : New_xgboost(i, a)
    \/ \E i \in ModelIds, a \in logisticPCA_args :
          New_logisticPCA(i, a)
    \/ \E i \in ModelIds : New_fifty(i)
    \/ \E self \in ModelIds, dfit \in Datasets, dpre \in Datasets,
          fit \in FitOutcomes :
          \/ logistic_fit_predict(self, dfit, dpre, fit)
          \/ extratrees_fit_predict(self, dfit, dpre, fit)
          \/ randomforest_fit_predict(self, dfit, dpre, fit)
          \/ xgboost_fit_predict(self, dfit, dpre, fit)
          \/ logisticPCA_fit_predict(self, dfit, dpre, fit)
    \/ \E self \in ModelIds, dfit \in Datasets, dpre \in Datasets :
          \/ fifty_fit_predict(self, dfit, dpre)
          \/ Call_hash(self, dfit, dpre)
    \/ \E self \in ModelIds : Call_repr(self)

SpecModel == Init /\ [][NextModel]_vars

-----------------------------------------------------------------------------
(* Properties of the utility layer, checked under Spec *)

Registered == { NAMES[k] : k \in 1..Len(NAMES) }

\* the value a call returned
Value(call) == call.out.value[1]

\* C1: id/name conversion is a bijection between 1..5 and the five registered
\* names: converting a registered name to its id and back gives the name, and
\* converting an id in 1..5 to its name and back gives the id.
C1_RoundTrip ==
    /\ (ret.op = "tournament_str2int" /\ ret.args[1] \in Registered) =>
          /\ Returned(ret.out)
          /\ Value(ret) \in 1..5
          /\ tournament_int2str(Value(ret)) = Return(ret.args[1])
    /\ (ret.op = "tournament_int2str" /\ ret.args[1] \in 1..5) =>
          /\ Returned(ret.out)
          /\ Value(ret) \in Registered
          /\ tournament_str2int(Value(ret)) = Return(ret.args[1])
    /\ \A i, j \in 1..5 :
          tournament_int2str(i) = tournament_int2str(j) => i = j

C1_Witness ==
    /\ ret.op = "tournament_str2int"
    /\ ret.args[1] = "charles"
    /\ ret.out = Return(5)

\* C2: tournament_int2str(t) raises ValueError exactly when t < 1 or t > 5 and
\* otherwise returns a registered name; tournament_str2int(s) raises ValueError
\* exactly when s is not a registered name and otherwise returns an id in 1..5.
C2_BoundsChecked ==
    /\ ret.op = "tournament_int2str" =>
          IF ret.args[1] < 1 \/ ret.args[1] > 5
          THEN ret.out.exc = "ValueError"
          ELSE Returned(ret.out) /\ Value(ret) \in Registered
    /\ ret.op = "tournament_str2int" =>
          IF ret.args[1] \notin Registered
          THEN ret.out.exc = "ValueError"
          ELSE Returned(ret.out) /\ Value(ret) \in 1..5

C2_Witness ==
    \/ ret.op = "tournament_int2str" /\ ret.args[1] = 0 /\ ret.out.exc = "ValueError"
    \/ ret.op = "tournament_int2str" /\ ret.args[1] = 6 /\ ret.out.exc = "ValueError"

\* sub in s, for str
Contains(s, sub) ==
    \/ sub = ""
    \/ \E i \in 1..(Len(s) - Len(sub) + 1) : SubSeq(s, i, i + Len(sub) - 1) = sub

\* C3 as stated: the error raised for a rejected id or name contains the
\* rejected value.
C3_ErrorNamesValue ==
    /\ (ret.op = "tournament_int2str" /\ ~Returned(ret.out)) =>
          Contains(ret.out.msg, ToString(ret.args[1]))
    /\ (ret.op = "tournament_str2int" /\ ~Returned(ret.out)) =>
          Contains(ret.out.msg, ret.args[1])

\* C3 as amended: the error raised for a rejected id or name is a ValueError
\* whose message is fixed by the check that failed; it names the parameter
\* and, for an id, the bound, and is the same for every rejected value.
C3_ErrorMessageFixed ==
    /\ (ret.op = "tournament_int2str" /\ ret.args[1] < 1) =>
          ret.out = Raise("ValueError", "'tournament_int' must be greater than 0")
    /\ (ret.op = "tournament_int2str" /\ ret.args[1] > 5) =>
          ret.out = Raise("ValueError", "'tournament_int' must be less than 6")
    /\ (ret.op = "tournament_str2int" /\ ret.args[1] \notin Registered) =>
          ret.out = Raise("ValueError", "'tournament_str' name not recognized")

C3_Witness ==
    /\ ret.op = "tournament_int2str"
    /\ ret.args[1] = 7
    /\ ret.out.exc = "ValueError"
    /\ ~Contains(ret.out.msg, "7")

\* the sequence list(tournament_iter()) is to give
Pairs ==
    << <<1, "bernie">>, <<2, "elizabeth">>, <<3, "jordan">>, <<4, "ken">>,
       <<5, "charles">> >>

\* C4: a generator made by tournament_iter yields exactly the five pairs
\* (1, bernie) .. (5, charles) in ascending order and then ends with
\* StopIteration and no other error; every call of tournament_iter gives a
\* generator that starts from the first pair, whatever the other generators
\* have yielded.
C4_Iter ==
    /\ \A g \in GenIds :
          gens[g].state # "none" =>
             /\ Len(gens[g].out) <= Len(Pairs)
             /\ gens[g].out = SubSeq(Pairs, 1, Len(gens[g].out))
             /\ gens[g].state = "finished" => gens[g].out = Pairs
    /\ ret.op = "next" =>
          IF Returned(ret.out)
          THEN /\ gens[ret.self].out # <<>>
               /\ Value(ret) = Pairs[Len(gens[ret.self].out)]
          ELSE /\ ret.out.exc = "StopIteration"
               /\ gens[ret.self].out = Pairs
    /\ ret.op = "tournament_iter" =>
          /\ gens[ret.self].state = "suspended"
          /\ gens[ret.self].out = <<>>
          /\ GenNext(gens[ret.self]).out = Return(Pairs[1])

\* a generator made after another was run to its end, and itself stepped twice
C4_Witness ==
    \E g, h \in GenIds :
        /\ g # h
        /\ gens[g].state = "finished"
        /\ gens[g].out = Pairs
        /\ gens[h].out = SubSeq(Pairs, 1, 2)
        /\ ret.op = "next" /\ ret.self = h /\ ret.out = Return(Pairs[2])

SignedIntTypes == {"int", "np.int8", "np.int16", "np.int32", "np.int64"}

-----------------------------------------------------------------------------
(* Properties of the adapter layer, checked under SpecModel *)

\* the class of the instance a call was made on
ClassOf(call) == objs[call.self].cls

Half == PyFloat(5, 10)

\* C5: a fit_predict that returns, on any adapter, returns (ids, predictions)
\* with len(ids) = len(predictions) = len(predict_data), ids being
\* predict_data.ids in its row order and predictions[i] the score of row i of
\* predict_data (the positive-class score of the trained estimator, or 0.5
\* for fifty).
C5_Aligned ==
    (ret.op = "fit_predict" /\ Returned(ret.out)) =>
        LET ids  == Value(ret)[1]
            yhat == Value(ret)[2]
            dpre == ret.args[2]
        IN  /\ Len(ids) = Data_len(dpre)
            /\ Len(yhat) = Data_len(dpre)
            /\ ids = dpre.ids
            /\ \A i \in 1..Len(yhat) :
                  yhat[i] = IF ClassOf(ret) = "fifty" THEN Half
                            ELSE ret.aux.fit[dpre.x[i]][2]

\* an estimator-backed adapter trained on one row and predicting two, with
\* different scores
C5_Witness ==
    /\ ret.op = "fit_predict"
    /\ ClassOf(ret) = "xgboost"
    /\ Returned(ret.out)
    /\ Data_len(ret.args[1]) = 1
    /\ Len(Value(ret)[1]) = 2
    /\ Value(ret)[2][1] # Value(ret)[2][2]

\* the items of a parameter mapping, as a set
Mapping(o) == IF o.hasp THEN {o.p[k] : k \in 1..Len(o.p)} ELSE {}

\* instance j with datasets d1, d2 has the class, parameters and dataset
\* hashes of the hash call recorded in ret
SameInputs(j, d1, d2) ==
    /\ objs[j].cls = ClassOf(ret)
    /\ objs[j].hasp = objs[ret.self].hasp
    /\ Mapping(objs[j]) = Mapping(objs[ret.self])
    /\ Data_hash(d1) = Data_hash(ret.args[1])
    /\ Data_hash(d2) = Data_hash(ret.args[2])

Bound == { j \in ModelIds : objs[j] # NoObj }

\* C6 as stated: instances with the same class, parameters and dataset hashes
\* have the same fingerprint, and a change of any one of the three changes
\* the fingerprint.
C6_FingerprintInjective ==
    ret.op = "hash" =>
        \A j \in Bound, d1 \in Datasets, d2 \in Datasets :
            (SameInputs(j, d1, d2) <=> (Model_hash(j, d1, d2) = Value(ret)))

\* C6 as amended: instances with the same class, parameters and dataset hashes
\* have the same fingerprint, and a change of any one of the three changes
\* the tuple (fit hash, predict hash, class name, sorted-key JSON of the
\* parameters) that is hashed.
C6_Fingerprint ==
    ret.op = "hash" =>
        \A j \in Bound, d1 \in Datasets, d2 \in Datasets :
            /\ SameInputs(j, d1, d2) => Model_hash(j, d1, d2) = Value(ret)
            /\ ~SameInputs(j, d1, d2) =>
                  HashTuple(j, d1, d2) # HashTuple(ret.self, ret.args[1], ret.args[2])

\* two instances of one class and parameters, and hash called on one of them
C6_Witness ==
    /\ ret.op = "hash"
    /\ objs[1] = objs[2]
    /\ ClassOf(ret) = "extratrees"
    /\ ret.args[1] # ret.args[2]

\* ", ".join(name + "=" + str(value)) over items
RECURSIVE JoinAssignments(_)
JoinAssignments(items) ==
    IF items = <<>> THEN ""
    ELSE Head(items)[1] \o "=" \o Str(Head(items)[2])
         \o (IF Tail(items) = <<>> THEN "" ELSE ", " \o JoinAssignments(Tail(items)))

\* C7 as stated: the representation is the class name and, in parentheses, the
\* parameter assignments sorted by parameter name.
C7_ReprSorted ==
    ret.op = "repr" =>
        Value(ret) = ClassOf(ret) \o "("
                        \o JoinAssignments(SortedItems(objs[ret.self].p)) \o ")"

\* C7 as amended: the representation is the class name and, in parentheses, the
\* parameter assignments name=value separated by ", " in the order in which
\* the mapping holds them (the order of the constructor's dict literal);
\* class name and "()" for an empty or absent mapping.
C7_ReprInsertionOrder ==
    ret.op = "repr" =>
        /\ Value(ret) = ClassOf(ret) \o "("
                           \o JoinAssignments(objs[ret.self].p) \o ")"
        /\ Mapping(objs[ret.self]) = {} => Value(ret) = ClassOf(ret) \o "()"
        /\ objs[ret.self].p = extratrees_init(PyInt(100), PyInt(3), PyInt(7), PyInt(0))
              => Value(ret) = "extratrees(ntrees=100, depth=3, nfeatures=7, seed=0)"
        /\ objs[ret.self].p = logistic_init(PyFloat(1, 10000))
              => Value(ret) = "logistic(inverse_l2=0.0001)"

C7_Witness ==
    /\ ret.op = "repr"
    /\ Value(ret) = "extratrees(ntrees=100, depth=3, nfeatures=7, seed=0)"

\* C8: fit_predict of fifty always returns, with len(predict_data) predictions
\* that are all 0.5, for every fit_data and predict_data (the call is made
\* with every pair of datasets; fit_data is not read).
C8_Fifty ==
    (ret.op = "fit_predict" /\ ClassOf(ret) = "fifty") =>
        /\ Returned(ret.out)
        /\ Len(Value(ret)[2]) = Data_len(ret.args[2])
        /\ \A i \in 1..Len(Value(ret)[2]) : Value(ret)[2][i] = Half

\* fifty given no rows to fit and two rows to predict
C8_Witness ==
    /\ ret.op = "fit_predict"
    /\ ClassOf(ret) = "fifty"
    /\ Data_len(ret.args[1]) = 0
    /\ Value(ret)[2] = <<Half, Half>>

\* C10: no call changes an instance once constructed (its parameter mapping
\* stays as set at construction, whichever instance the call is made on),
\* no call changes the tournament registry, and each estimator-backed
\* fit_predict builds an estimator of its own, used by no earlier call.
C10_NoMutableState ==
    [][ /\ \A j \in ModelIds : objs[j] # NoObj => objs'[j] = objs[j]
        /\ TOURNAMENT_NAMES' = TOURNAMENT_NAMES
        /\ (ret'.op = "fit_predict" /\ ret'.aux.est.id # 0) =>
              /\ ret'.aux.est.id = estimators + 1
              /\ estimators' = estimators + 1
        /\ (ret'.op = "fit_predict" /\ ret'.aux.est.id = 0) =>
              /\ objs[ret'.self].cls = "fifty"
              /\ estimators' = estimators
        /\ ret'.op \in {"hash", "repr"} => estimators' = estimators
      ]_vars

\* two instances, and the second estimator built by a fit_predict
C10_Witness ==
    /\ objs[1] # NoObj
    /\ objs[2] # NoObj
    /\ ret.op = "fit_predict"
    /\ ret.aux.est.id = 2
    /\ estimators = 2

=============================================================================
